---------------------------- MODULE Spec2Model ----------------------------
(***************************************************************************)
(* Model of src/generate_docs.py (Lich5DocumentationGenerator).            *)
(*                                                                         *)
(* A text is a sequence of tokens.  A token stands for a run of characters *)
(* that the program never looks inside ("def", "bar", "@param", ...); the  *)
(* tokens the program does look at are kept one by one: the comment marker *)
(* "#", the space " ", the line separator "\n", "!", the documentation tags*)
(* and the "coding:" / "encoding:" declarations.  `x in s` of the source   *)
(* is containment of a token sequence in a token sequence.                 *)
(***************************************************************************)
EXTENDS Integers, Sequences, FiniteSets, TLC

(***************************************************************************)
(* Bounds of the model.                                                    *)
(***************************************************************************)
MaxLines == 3
MaxEntries == 3
MaxRuns == 2

\* Source files that are edited while one run is under way.
MaxEdits == 1

VARIABLES
    \* ---- one call of insert_comments
    spc,               \* "loop" while entries remain, then "done"; "off" in Spec
    original_content,  \* the argument original_content
    comments,          \* the argument comments (entry list)
    lines,             \* the local list `lines`
    inserted_at_lines, \* the local set `inserted_at_lines`
    ei,                \* number of entries the for loop has consumed
    origin,            \* history: origin[i] = k > 0 when lines[i] is line k of the
                       \* original text, -e when entry e inserted it
    placed,            \* history: per consumed entry, the origin of the line its
                       \* block was inserted before, or Unplaced
    \* ---- the generator process and its files
    rpc,               \* main thread: "scan", "run", "done", "aborted", "crashed"; "off" in SpecSplice
    run,               \* number of the current process (1 = first run)
    incremental_arg,   \* __init__ argument incremental
    force_rebuild,     \* __init__ argument force_rebuild
    parallel_workers,  \* self.parallel_workers
    ruby_files,        \* the paths process_directory finds
    source,            \* storage: path -> current text of the source file
    unreadable,        \* storage: the paths whose open(..., 'r') raises
    outputs,           \* storage: documented/<name> -> [of, text, complete]
    disk,              \* storage: manifest.json: [state, content]
    manifest,          \* self.manifest
    failed_files,      \* self.failed_files
    manifest_lock,     \* self.manifest_lock (RLock): [owner, count]
    file_lock,         \* self.file_lock: the owner or "none"
    task,              \* per path: where its processing stands, and its values
    processed,         \* process_directory's `processed` (with processed_count)
    exit_code,         \* the process's exit status, -1 while it runs
    completed          \* history: paths whose success record mark_file_processed
                       \* has returned from, in this or an earlier process

spliceVars == <<spc, original_content, comments, lines, inserted_at_lines, ei, origin, placed>>

runVars == <<rpc, run, incremental_arg, force_rebuild, parallel_workers, ruby_files,
             source, unreadable, outputs, disk, manifest, failed_files, manifest_lock,
             file_lock, task, processed, exit_code, completed>>

vars == <<spliceVars, runVars>>

-----------------------------------------------------------------------------
(***************************************************************************)
(* Strings: str.strip, str.split('\n'), '\n'.join, `in`, str.startswith.   *)
(***************************************************************************)
NL == "\n"

Whitespace == {" ", NL}

RECURSIVE LStrip(_)
LStrip(s) ==
    IF s # <<>> /\ Head(s) \in Whitespace THEN LStrip(Tail(s)) ELSE s

RECURSIVE RStrip(_)
RStrip(s) ==
    IF s # <<>> /\ s[Len(s)] \in Whitespace THEN RStrip(SubSeq(s, 1, Len(s) - 1)) ELSE s

Strip(s) == RStrip(LStrip(s))

\* s.split('\n'): always at least one piece; n separators give n + 1 pieces.
RECURSIVE Split(_)
Split(s) ==
    IF \A i \in 1..Len(s) : s[i] # NL
    THEN <<s>>
    ELSE LET k == CHOOSE i \in 1..Len(s) : s[i] = NL /\ \A j \in 1..(i - 1) : s[j] # NL
         IN  <<SubSeq(s, 1, k - 1)>> \o Split(SubSeq(s, k + 1, Len(s)))

\* '\n'.join(ls): the empty list joins to the empty text.
RECURSIVE Join(_)
Join(ls) ==
    IF ls = <<>> THEN <<>>
    ELSE IF Len(ls) = 1 THEN ls[1]
    ELSE ls[1] \o <<NL>> \o Join(Tail(ls))

\* sub in s
Contains(sub, s) ==
    \E i \in 0..(Len(s) - Len(sub)) : SubSeq(s, i + 1, i + Len(sub)) = sub

StartsWith(s, p) == Len(p) <= Len(s) /\ SubSeq(s, 1, Len(p)) = p

\* ' ' * n (the empty string when n <= 0)
Spaces(n) == [i \in 1..(IF n > 0 THEN n ELSE 0) |-> " "]

-----------------------------------------------------------------------------
(***************************************************************************)
(* compute_code_hash                                                       *)
(***************************************************************************)
YardTags == {"@param", "@return", "@example", "@note", "@see", "@yield"}

\* A filter that drops the blank lines as well.
KeepLine_DropBlank(line) ==
    LET stripped == Strip(line) IN
    IF stripped = <<>> THEN FALSE
    ELSE IF StartsWith(stripped, <<"#">>) /\ \E tag \in YardTags : Contains(<<tag>>, stripped)
    THEN FALSE
    ELSE IF StartsWith(stripped, <<"#">>) /\ Len(stripped) > 1 /\ stripped[2] = " "
    THEN \/ StartsWith(stripped, <<"#", "!">>)
         \/ Contains(<<"coding:">>, stripped)
         \/ Contains(<<"encoding:">>, stripped)
    ELSE TRUE

\* The body of the for loop: TRUE when `line` is appended to code_lines.
KeepLine(line) ==
    LET stripped == Strip(line) IN
    IF StartsWith(stripped, <<"#">>) /\ \E tag \in YardTags : Contains(<<tag>>, stripped)
    THEN FALSE
    ELSE IF StartsWith(stripped, <<"#">>) /\ Len(stripped) > 1 /\ stripped[2] = " "
    THEN \/ StartsWith(stripped, <<"#", "!">>)
         \/ Contains(<<"coding:">>, stripped)
         \/ Contains(<<"encoding:">>, stripped)
    ELSE TRUE

\* code_lines after the loop
CodeLines(content) == SelectSeq(Split(content), KeepLine)

\* hashlib.sha256(...).hexdigest()[:16], taken as collision-free: the digest of a
\* text is represented by the text itself.
Sha256Hex16(text) == text

compute_code_hash(content) == Sha256Hex16(Join(CodeLines(content)))

-----------------------------------------------------------------------------
(***************************************************************************)
(* insert_comments.  List positions are 1-based here and 0-based in the    *)
(* source; inserted_at_lines holds positions of the same list, so the      *)
(* shift by one changes nothing.                                           *)
(***************************************************************************)
Unplaced == 0

\* entry.get('anchor', '').strip(), entry.get('comment', '').strip()
EntryAnchor(entry) == Strip(entry.anchor)

EntryComment(entry) == Strip(entry.comment)

\* `if not anchor or not comment_text: continue`
EntryRejected(entry) == EntryAnchor(entry) = <<>> \/ EntryComment(entry) = <<>>

\* The scan `for i, line in enumerate(lines)`: the first position whose line
\* contains the anchor and is not in inserted_at_lines; 0 for None.
FindAnchor(anchor, ls, used) ==
    LET hits == {i \in 1..Len(ls) : Contains(anchor, ls[i]) /\ i \notin used}
    IN  IF hits = {} THEN 0 ELSE CHOOSE i \in hits : \A j \in hits : i <= j

\* Block lines that all get the indentation, the blank ones as well.
CommentLines_IndentAll(entry) ==
    LET raw == Split(EntryComment(entry))
    IN  [k \in 1..Len(raw) |-> Spaces(entry.indent) \o raw[k]]

\* comment_lines: each non-blank line of the block behind indent_str, a blank
\* line as the empty string.
CommentLines(entry) ==
    LET raw == Split(EntryComment(entry))
    IN  [k \in 1..Len(raw) |->
            IF Strip(raw[k]) # <<>> THEN Spaces(entry.indent) \o raw[k] ELSE <<>>]

\* A splice that writes the block's line over the line at i.
InsertAt_Overwrite(ls, i, x) == SubSeq(ls, 1, i - 1) \o <<x>> \o SubSeq(ls, i + 1, Len(ls))

\* list.insert(i, x) with i counted from 1
InsertAt(ls, i, x) == SubSeq(ls, 1, i - 1) \o <<x>> \o SubSeq(ls, i, Len(ls))

\* `for offset, comment_line in enumerate(comment_lines):
\*      lines.insert(anchor_line_idx + offset, comment_line)`
RECURSIVE InsertFrom(_, _, _, _)
InsertFrom(ls, idx, block, offset) ==
    IF offset >= Len(block) THEN ls
    ELSE InsertFrom(InsertAt(ls, idx + offset, block[offset + 1]), idx, block, offset + 1)

InsertBlock(ls, idx, block) == InsertFrom(ls, idx, block, 0)

\* inserted_at_lines.add(anchor_line_idx)
MarkInserted(used, idx) == used \cup {idx}

\* The value insert_comments returns: the text unchanged for an empty entry
\* list, else the joined lines.
ReturnValue(content, entries, ls) == IF entries = <<>> THEN content ELSE Join(ls)

\* A loop that ends at the first entry it cannot insert.
RECURSIVE InsertLoop_StopAtSkipped(_, _, _, _)
InsertLoop_StopAtSkipped(ls, used, entries, k) ==
    IF k > Len(entries) THEN ls
    ELSE LET entry == entries[k]
             idx == FindAnchor(EntryAnchor(entry), ls, used)
         IN  IF EntryRejected(entry) \/ idx = 0
             THEN ls
             ELSE InsertLoop_StopAtSkipped(InsertBlock(ls, idx, CommentLines(entry)),
                                           MarkInserted(used, idx), entries, k + 1)

\* The whole `for entry in comments` loop from entry k on, as a function.
RECURSIVE InsertLoop(_, _, _, _)
InsertLoop(ls, used, entries, k) ==
    IF k > Len(entries) THEN ls
    ELSE LET entry == entries[k]
             idx == FindAnchor(EntryAnchor(entry), ls, used)
         IN  IF EntryRejected(entry) \/ idx = 0
             THEN InsertLoop(ls, used, entries, k + 1)
             ELSE InsertLoop(InsertBlock(ls, idx, CommentLines(entry)),
                             MarkInserted(used, idx), entries, k + 1)

insert_comments(content, entries) ==
    ReturnValue(content, entries, InsertLoop(Split(content), {}, entries, 1))

-----------------------------------------------------------------------------
(***************************************************************************)
(* The manifest, the skip decision and the record of a file.               *)
(***************************************************************************)
NoPaths == {}

\* {'processed_files': {}, 'failed_files': [], 'timestamp': ...}; a
\* processed_files entry is represented by its content_hash.
EmptyManifest == [processed_files |-> [q \in NoPaths |-> <<>>], failed_files |-> <<>>]

AbsentFile == [state |-> "absent", content |-> EmptyManifest]

\* manifest.json between open(..., 'w') and the close that flushes the dump
PartialFile == [state |-> "partial", content |-> EmptyManifest]

JsonFile(m) == [state |-> "json", content |-> m]

\* A fallback manifest that lacks the failed list.
load_manifest_NoFailedList(file) ==
    IF file.state = "json" THEN file.content
    ELSE [processed_files |-> [q \in NoPaths |-> <<>>]]

\* load_manifest: the parsed file, or the empty manifest when the file is
\* missing or does not parse.
load_manifest(file) ==
    IF file.state # "absent"
    THEN IF file.state = "json" THEN file.content ELSE EmptyManifest
    ELSE EmptyManifest

\* file_path.name
Name(path) == IF path = "lib/b.rb" THEN "b.rb" ELSE "a.rb"

\* self.incremental = incremental and not force_rebuild
Incremental(inc, force) == inc /\ ~force

\* A skip decision that does not look for the output file.
is_file_processed_NoOutputCheck(path, inc, m, outs, src, noread) ==
    /\ inc
    /\ path \in DOMAIN m.processed_files
    /\ path \notin noread
    /\ compute_code_hash(src[path]) = m.processed_files[path]

\* is_file_processed, on the generator's state and the storage
is_file_processed(path, inc, m, outs, src, noread) ==
    IF ~inc THEN FALSE
    ELSE IF path \in DOMAIN m.processed_files
    THEN IF Name(path) \notin DOMAIN outs THEN FALSE
         ELSE IF path \in noread THEN FALSE
         ELSE IF compute_code_hash(src[path]) # m.processed_files[path] THEN FALSE
         ELSE TRUE
    ELSE FALSE

\* An assignment that leaves the dict with the one key.
Put_Only(f, k, v) == [x \in {k} |-> v]

\* f with key k set to v (dict assignment)
Put(f, k, v) == [x \in DOMAIN f \cup {k} |-> IF x = k THEN v ELSE f[x]]

InSeq(x, sq) == \E i \in 1..Len(sq) : sq[i] = x

\* A record that is kept for successes only.
MarkEntry_SuccessOnly(m, path, success, src) ==
    IF success
    THEN [m EXCEPT !.processed_files = Put(@, path, compute_code_hash(src[path]))]
    ELSE m

\* A failure record that is appended whether or not the path is in the list.
MarkEntry_AlwaysAppend(m, path, success, src) ==
    IF success
    THEN [m EXCEPT !.processed_files = Put(@, path, compute_code_hash(src[path]))]
    ELSE [m EXCEPT !.failed_files = Append(@, path)]

\* The update mark_file_processed makes to self.manifest.  The call sites pass
\* no content, so the file is read again for the hash.
\* A record of success whatever the caller passed as `success`.
MarkEntry_IgnoreSuccess(m, path, success, src) ==
    [m EXCEPT !.processed_files = Put(@, path, compute_code_hash(src[path]))]

MarkEntry(m, path, success, src) ==
    IF success
    THEN [m EXCEPT !.processed_files = Put(@, path, compute_code_hash(src[path]))]
    ELSE IF ~InSeq(path, m.failed_files)
    THEN [m EXCEPT !.failed_files = Append(@, path)]
    ELSE m

\* A lock that never makes its caller wait.
CanAcquire_Always(lock, t) == TRUE

\* threading.Lock: its holder, too, waits when it asks again.
CanAcquire_NotReentrant(lock, t) == lock.owner = "none"

\* threading.RLock: free, or held by the thread that asks
CanAcquire(lock, t) == lock.owner = "none" \/ lock.owner = t

FreeLock == [owner |-> "none", count |-> 0]

\* An output-file lock that never makes its caller wait.
FileLockFree_Always(lock, t) == TRUE

\* `with self.file_lock:` (an RLock, held by at most one thread, named by the
\* file it works on): the caller enters when no other thread holds it.
FileLockFree(lock, t) == lock = "none" \/ lock = t

\* `if result:` on what process_file returned (None and '' are falsy)
Truthy(r) == ~r.none /\ r.text # <<>>

\* `self.parallel_workers > 1 and len(files_to_process) > 1`
UseParallel(workers, todo) == workers > 1 /\ Cardinality(todo) > 1

\* `stats['failed'] > 0` decides sys.exit(1)
ExitStatus(failed) == IF Len(failed) > 0 THEN 1 ELSE 0

(***************************************************************************)
(* Inputs.                                                                 *)
(***************************************************************************)
LinePool ==
    { <<"def", " ", "bar">>, <<"end">>, <<>>, <<"#", " ", "bar">> }

EntryPool ==
    { [anchor |-> <<"def", " ", "bar">>, indent |-> 0,
       comment |-> <<"#", " ", "does", " ", "bar", NL, "#", NL, "#", " ", "@param", " ", "x">>],
      [anchor |-> <<" ", "bar", " ">>, indent |-> 2,
       comment |-> <<NL, "#", " ", "@return", NL, NL, "#", " ", "x", NL>>],
      [anchor |-> <<"end">>, indent |-> 0,
       comment |-> <<"#", " ", "@see", " ", "x">>],
      [anchor |-> <<" ">>, indent |-> 0,
       comment |-> <<"#", " ", "x">>] }

SeqsUpTo(S, n) == UNION { [1..k -> S] : k \in 0..n }

Texts == { Join(ls) : ls \in SeqsUpTo(LinePool, MaxLines) \ {<<>>} }

EntryLists == SeqsUpTo(EntryPool, MaxEntries)

\* Directories of the run: one file, two files, two files of one base name.
FileSets == { {"lib/a.rb"}, {"lib/a.rb", "lib/b.rb"}, {"lib/a.rb", "ext/a.rb"} }

\* The order in which rglob lists the files.
Rank(path) == IF path = "lib/a.rb" THEN 1 ELSE 2

CodeA == <<"def", " ", "bar">>

CodeB == <<"def", " ", "bar", NL, "end">>

\* The text of each file when the first run starts: two files, two texts.
InitialText(path) == IF Rank(path) = 1 THEN CodeA ELSE CodeB

\* Source texts: code, the same code under a comment, other code, an empty file.
ContentPool == { CodeA, <<"#", " ", "x", NL>> \o CodeA, <<"end">>, <<>> }

\* The entry list a well-formed response carries.
ReplyEntries ==
    <<[anchor |-> <<"def", " ", "bar">>, indent |-> 0,
       comment |-> <<"#", " ", "@param", " ", "x">>]>>

\* A response of the backend: `fenced` when the payload sits in a ```json
\* block, `prose` when text surrounds the payload, `json` what json.loads makes
\* of the payload alone ("none": it raises JSONDecodeError; "object": a value
\* that is no list; "array": a list of objects, here `entries`).
Responses ==
    { [fenced |-> TRUE,  prose |-> TRUE,  json |-> "array",  entries |-> ReplyEntries],
      [fenced |-> FALSE, prose |-> TRUE,  json |-> "array",  entries |-> ReplyEntries],
      [fenced |-> FALSE, prose |-> TRUE,  json |-> "none",   entries |-> <<>>],
      [fenced |-> FALSE, prose |-> FALSE, json |-> "object", entries |-> <<>>] }

NoReply == [fenced |-> FALSE, prose |-> FALSE, json |-> "none", entries |-> <<>>]

\* What provider.generate comes to: an exception or a response.
Generated ==
    { [raised |-> TRUE, response |-> NoReply] }
        \cup { [raised |-> FALSE, response |-> r] : r \in Responses }

\* extract_comments_json: json_text is the first ```json block, else the first
\* match of the array-of-objects pattern, else the whole response; json.loads
\* of it gives the list, `raise ValueError` leaves the function when the value
\* is no list, and JSONDecodeError alone is caught and gives [].
extract_comments_json(response) ==
    LET whole == IF response.prose THEN "none" ELSE response.json
        json_text == IF response.fenced THEN response.json
                     ELSE IF response.json = "array" /\ response.entries # <<>>
                     THEN response.json
                     ELSE whole
    IN  IF json_text = "array" THEN [raised |-> FALSE, entries |-> response.entries]
        ELSE IF json_text = "object" THEN [raised |-> TRUE, entries |-> <<>>]
        ELSE [raised |-> FALSE, entries |-> <<>>]

Configs ==
    { [incremental |-> TRUE, force_rebuild |-> FALSE],
      [incremental |-> TRUE, force_rebuild |-> TRUE],
      [incremental |-> FALSE, force_rebuild |-> FALSE] }

NoResult == [none |-> TRUE, text |-> <<>>]

\* No call of provider.generate yet
NoCall == [raised |-> FALSE, response |-> NoReply]

\* `reply` and `read` are history: what provider.generate came to for this
\* file, and the original_content that process_file read.
FreshTask ==
    [pc |-> "new", result |-> NoResult, success |-> FALSE, buf |-> EmptyManifest,
     reply |-> NoCall, read |-> <<>>]

SpliceOff ==
    /\ spc = "off"
    /\ original_content = <<>>
    /\ comments = <<>>
    /\ lines = <<>>
    /\ inserted_at_lines = {}
    /\ ei = 0
    /\ origin = <<>>
    /\ placed = <<>>

RunOff ==
    /\ rpc = "off"
    /\ run = 0
    /\ incremental_arg = TRUE
    /\ force_rebuild = FALSE
    /\ parallel_workers = 1
    /\ ruby_files = {}
    /\ source = <<>>
    /\ unreadable = {}
    /\ outputs = <<>>
    /\ disk = AbsentFile
    /\ manifest = EmptyManifest
    /\ failed_files = <<>>
    /\ manifest_lock = FreeLock
    /\ file_lock = "none"
    /\ task = <<>>
    /\ processed = 0
    /\ exit_code = -1
    /\ completed = {}

-----------------------------------------------------------------------------
(***************************************************************************)
(* SpecSplice: one call of insert_comments, entry by entry.                *)
(***************************************************************************)
SpliceInit ==
    /\ original_content \in Texts
    /\ comments \in EntryLists
    /\ lines = Split(original_content)
    /\ inserted_at_lines = {}
    /\ ei = 0
    /\ origin = [i \in 1..Len(Split(original_content)) |-> i]
    /\ placed = <<>>
    /\ spc = "loop"
    /\ RunOff

\* One pass of `for entry in comments`.
InsertEntry ==
    /\ spc = "loop"
    /\ ei < Len(comments)
    /\ LET entry == comments[ei + 1]
           idx == FindAnchor(EntryAnchor(entry), lines, inserted_at_lines)
           block == CommentLines(entry)
       IN  IF EntryRejected(entry) \/ idx = 0
           THEN /\ placed' = Append(placed, Unplaced)
                /\ UNCHANGED <<lines, inserted_at_lines, origin>>
           ELSE /\ lines' = InsertBlock(lines, idx, block)
                /\ inserted_at_lines' = MarkInserted(inserted_at_lines, idx)
                /\ origin' = InsertBlock(origin, idx, [k \in 1..Len(block) |-> -(ei + 1)])
                /\ placed' = Append(placed, origin[idx])
    /\ ei' = ei + 1
    /\ UNCHANGED <<spc, original_content, comments>>
    /\ UNCHANGED runVars

\* `return '\n'.join(lines)` (or the early return for an empty list)
InsertReturn ==
    /\ spc = "loop"
    /\ ei = Len(comments)
    /\ spc' = "done"
    /\ UNCHANGED <<original_content, comments, lines, inserted_at_lines, ei, origin, placed>>
    /\ UNCHANGED runVars

SpliceNext == InsertEntry \/ InsertReturn

SpecSplice == SpliceInit /\ [][SpliceNext]_vars

\* The text insert_comments has returned (defined in the done state).
Result == ReturnValue(original_content, comments, lines)

-----------------------------------------------------------------------------
(***************************************************************************)
(* Spec: runs of process_directory (main's directory mode), sequential or  *)
(* with a pool of workers, a kill at any point, and the next process.      *)
(***************************************************************************)
RunInit ==
    /\ SpliceOff
    /\ rpc = "scan"
    /\ run = 1
    /\ incremental_arg = TRUE
    /\ force_rebuild = FALSE
    /\ parallel_workers \in {1, 2}
    /\ ruby_files \in FileSets
    /\ source = [p \in ruby_files |-> InitialText(p)]
    /\ unreadable = {}
    /\ outputs = <<>>
    /\ disk = AbsentFile
    /\ manifest = load_manifest(AbsentFile)
    /\ failed_files = <<>>
    /\ manifest_lock = FreeLock
    /\ file_lock = "none"
    /\ task = [p \in ruby_files |-> FreshTask]
    /\ processed = 0
    /\ exit_code = -1
    /\ completed = {}

\* files_to_process
Todo == {p \in ruby_files : task[p].pc # "skipped"}

Parallel == UseParallel(parallel_workers, Todo)

\* Tasks a pool thread is running
Running == {p \in Todo : task[p].pc \notin {"pending", "returned", "collected"}}

\* The sequential loop takes the files in order; the pool runs up to
\* parallel_workers of them at a time.
MayStart(p) ==
    IF Parallel
    THEN Cardinality(Running) < parallel_workers
    ELSE \A q \in Todo : Rank(q) < Rank(p) => task[q].pc = "returned"

\* The filter loop of process_directory: is_file_processed on every file.
ScanFiles ==
    /\ rpc = "scan"
    /\ LET skip(p) == is_file_processed(p, Incremental(incremental_arg, force_rebuild),
                                        manifest, outputs, source, unreadable)
       IN  /\ task' = [p \in ruby_files |->
                          [task[p] EXCEPT !.pc = IF skip(p) THEN "skipped" ELSE "pending"]]
           /\ processed' = Cardinality({p \in ruby_files : skip(p)})
    /\ rpc' = "run"
    /\ UNCHANGED <<run, incremental_arg, force_rebuild, parallel_workers, ruby_files, source,
                   unreadable, outputs, disk, manifest, failed_files, manifest_lock,
                   file_lock, exit_code, completed>>
    /\ UNCHANGED spliceVars

\* process_file: read, generate, extract_comments_json, insert_comments.
ProcessFile(p) ==
    /\ rpc = "run"
    /\ task[p].pc = "pending"
    /\ MayStart(p)
    /\ \E g \in (IF p \in unreadable THEN {NoCall} ELSE Generated) :
         LET b == IF g.raised THEN [raised |-> TRUE, entries |-> <<>>]
                  ELSE extract_comments_json(g.response)
         IN
         IF p \in unreadable \/ b.raised \/ b.entries = <<>>
         THEN /\ failed_files' = Append(failed_files, Name(p))
              /\ task' = [task EXCEPT ![p].pc = "tomark", ![p].success = FALSE,
                                      ![p].reply = g,
                                      ![p].read = IF p \in unreadable THEN <<>>
                                                  ELSE source[p]]
              /\ UNCHANGED processed
         ELSE LET r == [none |-> FALSE, text |-> insert_comments(source[p], b.entries)]
              IN  /\ task' = [task EXCEPT ![p].result = r,
                                          ![p].pc = IF Truthy(r) THEN "towrite" ELSE "tomark",
                                          ![p].success = FALSE,
                                          ![p].reply = g,
                                          ![p].read = source[p]]
                  /\ processed' = IF Truthy(r) /\ ~Parallel THEN processed + 1 ELSE processed
                  /\ UNCHANGED failed_files
    /\ UNCHANGED <<rpc, run, incremental_arg, force_rebuild, parallel_workers, ruby_files,
                   source, unreadable, outputs, disk, manifest, manifest_lock, file_lock,
                   exit_code, completed>>
    /\ UNCHANGED spliceVars

\* _process_single_file: `with self.file_lock: with open(output_file, 'w')`;
\* an exception leaves the lock and reaches the except clause.
WorkerOpenOutput(p) ==
    /\ rpc = "run"
    /\ Parallel
    /\ task[p].pc = "towrite"
    /\ FileLockFree(file_lock, p)
    /\ \E ok \in BOOLEAN :
         IF ok
         THEN /\ outputs' = Put(outputs, Name(p), [of |-> p, text |-> <<>>, complete |-> FALSE])
              /\ file_lock' = p
              /\ task' = [task EXCEPT ![p].pc = "opened"]
         ELSE /\ task' = [task EXCEPT ![p].pc = "tomark", ![p].success = FALSE]
              /\ UNCHANGED <<outputs, file_lock>>
    /\ UNCHANGED <<rpc, run, incremental_arg, force_rebuild, parallel_workers, ruby_files,
                   source, unreadable, disk, manifest, failed_files, manifest_lock,
                   processed, exit_code, completed>>
    /\ UNCHANGED spliceVars

\* _process_single_file: f.write(result), close, release of file_lock.
WorkerWriteOutput(p) ==
    /\ rpc = "run"
    /\ Parallel
    /\ task[p].pc = "opened"
    /\ \E ok \in BOOLEAN :
         IF ok
         THEN /\ outputs' = Put(outputs, Name(p),
                                [of |-> p, text |-> task[p].result.text, complete |-> TRUE])
              /\ task' = [task EXCEPT ![p].pc = "tomark", ![p].success = TRUE]
         ELSE /\ task' = [task EXCEPT ![p].pc = "tomark", ![p].success = FALSE]
              /\ UNCHANGED outputs
    /\ file_lock' = "none"
    /\ UNCHANGED <<rpc, run, incremental_arg, force_rebuild, parallel_workers, ruby_files,
                   source, unreadable, disk, manifest, failed_files, manifest_lock,
                   processed, exit_code, completed>>
    /\ UNCHANGED spliceVars

\* The sequential loop: `with open(output_file, 'w')` under no lock and no try;
\* an exception leaves process_directory and main.
LoopOpenOutput(p) ==
    /\ rpc = "run"
    /\ ~Parallel
    /\ task[p].pc = "towrite"
    /\ \E ok \in BOOLEAN :
         IF ok
         THEN /\ outputs' = Put(outputs, Name(p), [of |-> p, text |-> <<>>, complete |-> FALSE])
              /\ task' = [task EXCEPT ![p].pc = "opened"]
              /\ UNCHANGED <<rpc, exit_code>>
         ELSE /\ rpc' = "aborted"
              /\ exit_code' = 1
              /\ UNCHANGED <<outputs, task>>
    /\ UNCHANGED <<run, incremental_arg, force_rebuild, parallel_workers, ruby_files,
                   source, unreadable, disk, manifest, failed_files, manifest_lock,
                   file_lock, processed, completed>>
    /\ UNCHANGED spliceVars

\* The sequential loop: f.write(result) and close.
LoopWriteOutput(p) ==
    /\ rpc = "run"
    /\ ~Parallel
    /\ task[p].pc = "opened"
    /\ \E ok \in BOOLEAN :
         IF ok
         THEN /\ outputs' = Put(outputs, Name(p),
                                [of |-> p, text |-> task[p].result.text, complete |-> TRUE])
              /\ task' = [task EXCEPT ![p].pc = "tomark", ![p].success = TRUE]
              /\ UNCHANGED <<rpc, exit_code>>
         ELSE /\ rpc' = "aborted"
              /\ exit_code' = 1
              /\ UNCHANGED <<outputs, task>>
    /\ UNCHANGED <<run, incremental_arg, force_rebuild, parallel_workers, ruby_files,
                   source, unreadable, disk, manifest, failed_files, manifest_lock,
                   file_lock, processed, completed>>
    /\ UNCHANGED spliceVars

\* mark_file_processed: `with self.manifest_lock:` and the update of self.manifest.
MarkUpdate(p) ==
    /\ rpc = "run"
    /\ task[p].pc = "tomark"
    /\ CanAcquire(manifest_lock, p)
    /\ manifest_lock' = [owner |-> p, count |-> 1]
    /\ manifest' = MarkEntry(manifest, p, task[p].success, source)
    /\ task' = [task EXCEPT ![p].pc = "marked"]
    /\ UNCHANGED <<rpc, run, incremental_arg, force_rebuild, parallel_workers, ruby_files,
                   source, unreadable, outputs, disk, failed_files, file_lock, processed,
                   exit_code, completed>>
    /\ UNCHANGED spliceVars

\* save_manifest: the lock taken again by its owner, open(manifest_file, 'w').
SaveOpen(p) ==
    /\ rpc = "run"
    /\ task[p].pc = "marked"
    /\ CanAcquire(manifest_lock, p)
    /\ manifest_lock' = [manifest_lock EXCEPT !.count = @ + 1]
    /\ disk' = PartialFile
    /\ task' = [task EXCEPT ![p].pc = "saving"]
    /\ UNCHANGED <<rpc, run, incremental_arg, force_rebuild, parallel_workers, ruby_files,
                   source, unreadable, outputs, manifest, failed_files, file_lock, processed,
                   exit_code, completed>>
    /\ UNCHANGED spliceVars

\* save_manifest: json.dump(self.manifest, f) into the file object's buffer.
SaveDump(p) ==
    /\ rpc = "run"
    /\ task[p].pc = "saving"
    /\ task' = [task EXCEPT ![p].pc = "dumped", ![p].buf = manifest]
    /\ UNCHANGED <<rpc, run, incremental_arg, force_rebuild, parallel_workers, ruby_files,
                   source, unreadable, outputs, disk, manifest, failed_files, manifest_lock,
                   file_lock, processed, exit_code, completed>>
    /\ UNCHANGED spliceVars

\* save_manifest: the close that flushes the buffer; both `with` blocks end and
\* mark_file_processed returns to its caller, which returns `success`.
SaveClose(p) ==
    /\ rpc = "run"
    /\ task[p].pc = "dumped"
    /\ disk' = JsonFile(task[p].buf)
    /\ manifest_lock' = FreeLock
    /\ task' = [task EXCEPT ![p].pc = "returned"]
    /\ completed' = IF task[p].success THEN completed \cup {p} ELSE completed
    /\ UNCHANGED <<rpc, run, incremental_arg, force_rebuild, parallel_workers, ruby_files,
                   source, unreadable, outputs, manifest, failed_files, file_lock, processed,
                   exit_code>>
    /\ UNCHANGED spliceVars

\* _process_files_parallel: one pass of `for future in as_completed(...)`.
Collect(p) ==
    /\ rpc = "run"
    /\ Parallel
    /\ task[p].pc = "returned"
    /\ processed' = IF task[p].success THEN processed + 1 ELSE processed
    /\ task' = [task EXCEPT ![p].pc = "collected"]
    /\ UNCHANGED <<rpc, run, incremental_arg, force_rebuild, parallel_workers, ruby_files,
                   source, unreadable, outputs, disk, manifest, failed_files, manifest_lock,
                   file_lock, exit_code, completed>>
    /\ UNCHANGED spliceVars

\* process_directory returns its stats and main exits.
Finish ==
    /\ rpc = "run"
    /\ \A p \in Todo : task[p].pc = IF Parallel THEN "collected" ELSE "returned"
    /\ rpc' = "done"
    /\ exit_code' = ExitStatus(failed_files)
    /\ UNCHANGED <<run, incremental_arg, force_rebuild, parallel_workers, ruby_files,
                   source, unreadable, outputs, disk, manifest, failed_files, manifest_lock,
                   file_lock, task, processed, completed>>
    /\ UNCHANGED spliceVars

\* The process is killed: its memory is gone, the storage stays as it is.
Crash ==
    /\ rpc \in {"scan", "run"}
    /\ rpc' = "crashed"
    /\ exit_code' = 137
    /\ manifest' = EmptyManifest
    /\ failed_files' = <<>>
    /\ manifest_lock' = FreeLock
    /\ file_lock' = "none"
    /\ task' = [p \in ruby_files |-> FreshTask]
    /\ processed' = 0
    /\ UNCHANGED <<run, incremental_arg, force_rebuild, parallel_workers, ruby_files,
                   source, unreadable, outputs, disk, completed>>
    /\ UNCHANGED spliceVars

\* __init__ of the next process: the configuration, load_manifest, no failures.
StartProcess(cfg) ==
    /\ rpc \in {"done", "aborted", "crashed"}
    /\ run < MaxRuns
    /\ run' = run + 1
    /\ rpc' = "scan"
    /\ incremental_arg' = cfg.incremental
    /\ force_rebuild' = cfg.force_rebuild
    /\ manifest' = load_manifest(disk)
    /\ failed_files' = <<>>
    /\ manifest_lock' = FreeLock
    /\ file_lock' = "none"
    /\ task' = [p \in ruby_files |-> FreshTask]
    /\ processed' = 0
    /\ exit_code' = -1
    /\ UNCHANGED <<parallel_workers, ruby_files, disk, completed>>
    /\ UNCHANGED spliceVars

\* The next run on the storage as the last process left it.
Restart ==
    /\ \E cfg \in Configs : StartProcess(cfg)
    /\ UNCHANGED <<source, unreadable, outputs>>

\* The next run after an edit of one source file.
RestartEdited ==
    /\ \E cfg \in Configs : StartProcess(cfg)
    /\ \E p \in ruby_files, c \in ContentPool :
         /\ c # source[p]
         /\ source' = [source EXCEPT ![p] = c]
    /\ UNCHANGED <<unreadable, outputs>>

\* The next run after an output file was removed.
RestartOutputRemoved ==
    /\ \E cfg \in Configs : StartProcess(cfg)
    /\ \E n \in DOMAIN outputs : outputs' = [m \in DOMAIN outputs \ {n} |-> outputs[m]]
    /\ UNCHANGED <<source, unreadable>>

\* The next run with one source file that cannot be read.
RestartUnreadable ==
    /\ \E cfg \in Configs : StartProcess(cfg)
    /\ \E p \in ruby_files : unreadable' = {p}
    /\ UNCHANGED <<source, outputs>>

\* The next process after any end of this one, as far as __init__: what
\* load_manifest makes of the file the last process left.
Reload ==
    /\ rpc \in {"done", "aborted", "crashed"}
    /\ run = 1
    /\ rpc' = "reloaded"
    /\ run' = run + 1
    /\ manifest' = load_manifest(disk)
    /\ failed_files' = <<>>
    /\ manifest_lock' = FreeLock
    /\ file_lock' = "none"
    /\ task' = [p \in ruby_files |-> FreshTask]
    /\ processed' = 0
    /\ exit_code' = -1
    /\ UNCHANGED <<incremental_arg, force_rebuild, parallel_workers, ruby_files, source,
                   unreadable, outputs, disk, completed>>
    /\ UNCHANGED spliceVars

\* One process on a fresh output directory, sequential or with a pool, that
\* runs to its end or is killed, and the load of the manifest it leaves.
Next ==
    \/ ScanFiles
    \/ \E p \in ruby_files : ProcessFile(p)
    \/ \E p \in ruby_files : WorkerOpenOutput(p)
    \/ \E p \in ruby_files : WorkerWriteOutput(p)
    \/ \E p \in ruby_files : LoopOpenOutput(p)
    \/ \E p \in ruby_files : LoopWriteOutput(p)
    \/ \E p \in ruby_files : MarkUpdate(p)
    \/ \E p \in ruby_files : SaveOpen(p)
    \/ \E p \in ruby_files : SaveDump(p)
    \/ \E p \in ruby_files : SaveClose(p)
    \/ \E p \in ruby_files : Collect(p)
    \/ Finish
    \/ Crash
    \/ Reload

Spec == RunInit /\ [][Next]_vars

\* Up to MaxRuns processes, one after the other, of a generator with one
\* worker, with a change of the storage or of the options between two runs.
RerunInit == RunInit /\ parallel_workers = 1

RerunNext ==
    \/ ScanFiles
    \/ \E p \in ruby_files : ProcessFile(p)
    \/ \E p \in ruby_files : LoopOpenOutput(p)
    \/ \E p \in ruby_files : LoopWriteOutput(p)
    \/ \E p \in ruby_files : MarkUpdate(p)
    \/ \E p \in ruby_files : SaveOpen(p)
    \/ \E p \in ruby_files : SaveDump(p)
    \/ \E p \in ruby_files : SaveClose(p)
    \/ Finish
    \/ Crash
    \/ Restart
    \/ RestartEdited
    \/ RestartOutputRemoved
    \/ RestartUnreadable

SpecRerun == RerunInit /\ [][RerunNext]_vars

\* Another program (an editor) saves a new text of one source file while the
\* run is under way.
EditSource(p) ==
    /\ rpc = "run"
    /\ Cardinality({q \in ruby_files : source[q] # InitialText(q)}) < MaxEdits
    /\ source[p] = InitialText(p)
    /\ \E c \in ContentPool :
         /\ c # source[p]
         /\ source' = [source EXCEPT ![p] = c]
    /\ UNCHANGED <<rpc, run, incremental_arg, force_rebuild, parallel_workers, ruby_files,
                   unreadable, outputs, disk, manifest, failed_files, manifest_lock,
                   file_lock, task, processed, exit_code, completed>>
    /\ UNCHANGED spliceVars

EditNext ==
    \/ Next
    \/ \E p \in ruby_files : EditSource(p)

\* One process as in Spec, on source files that are edited while it runs.
SpecEdit == RunInit /\ [][EditNext]_vars

\* The steps of the thread that works on p: a pool worker, or the main thread
\* in the sequential loop.
WorkerStep(p) ==
    /\ p \in ruby_files
    /\ \/ ProcessFile(p)
       \/ WorkerOpenOutput(p)
       \/ WorkerWriteOutput(p)
       \/ LoopOpenOutput(p)
       \/ LoopWriteOutput(p)
       \/ MarkUpdate(p)
       \/ SaveOpen(p)
       \/ SaveDump(p)
       \/ SaveClose(p)

\* The steps of the main thread around the workers.
MainStep ==
    \/ ScanFiles
    \/ \E p \in ruby_files : Collect(p)
    \/ Finish

LiveNext ==
    \/ MainStep
    \/ \E p \in ruby_files : WorkerStep(p)

\* A process that is not killed: every backend call returns (ProcessFile is
\* one step), and the scheduler runs every thread that can take a step.
SpecLive ==
    /\ RunInit
    /\ [][LiveNext]_vars
    /\ WF_vars(MainStep)
    /\ \A p \in UNION FileSets : WF_vars(WorkerStep(p))

(***************************************************************************)
(* SpecMark: calls of mark_file_processed, for any path and either value   *)
(* of `success`, again and again and by several threads, on a manifest as  *)
(* load_manifest gave it.                                                  *)
(***************************************************************************)
\* The sequences over S that hold no member twice.
RECURSIVE Arrangements(_)
Arrangements(S) ==
    {<<>>} \cup UNION { { <<x>> \o t : t \in Arrangements(S \ {x}) } : x \in S }

\* The manifests an earlier process can have left for these files.
StartManifests(files, src) ==
    { [processed_files |-> [q \in done |-> compute_code_hash(src[q])], failed_files |-> ff] :
        done \in SUBSET files, ff \in Arrangements(files) }

MarkInit ==
    /\ SpliceOff
    /\ rpc = "run"
    /\ run = 1
    /\ incremental_arg = TRUE
    /\ force_rebuild = FALSE
    /\ parallel_workers = 2
    /\ ruby_files \in FileSets
    /\ source = [p \in ruby_files |-> InitialText(p)]
    /\ unreadable = {}
    /\ outputs = <<>>
    /\ manifest \in StartManifests(ruby_files, source)
    /\ disk = JsonFile(manifest)
    /\ failed_files = <<>>
    /\ manifest_lock = FreeLock
    /\ file_lock = "none"
    /\ task = [p \in ruby_files |-> [FreshTask EXCEPT !.pc = "idle"]]
    /\ processed = 0
    /\ exit_code = -1
    /\ completed = {}

\* A thread calls mark_file_processed(p, success).
CallMark(p) ==
    /\ rpc = "run"
    /\ task[p].pc \in {"idle", "returned"}
    /\ \E s \in BOOLEAN : task' = [task EXCEPT ![p].pc = "tomark", ![p].success = s]
    /\ UNCHANGED <<rpc, run, incremental_arg, force_rebuild, parallel_workers, ruby_files,
                   source, unreadable, outputs, disk, manifest, failed_files, manifest_lock,
                   file_lock, processed, exit_code, completed>>
    /\ UNCHANGED spliceVars

MarkNext ==
    \/ \E p \in ruby_files : CallMark(p)
    \/ \E p \in ruby_files : MarkUpdate(p)
    \/ \E p \in ruby_files : SaveOpen(p)
    \/ \E p \in ruby_files : SaveDump(p)
    \/ \E p \in ruby_files : SaveClose(p)

SpecMark == MarkInit /\ [][MarkNext]_vars

(***************************************************************************)
(* The sequential loop of process_directory as a function of what happens  *)
(* to each file: "failed" when process_file returns None, "writeerror" when *)
(* the write of the output raises, "ok" otherwise.                         *)
(***************************************************************************)
\* The file the loop takes first
FirstOf(files) == CHOOSE p \in files : \A q \in files : Rank(p) <= Rank(q)

RECURSIVE SequentialLoop(_, _, _, _)
SequentialLoop(st, files, outcome, src) ==
    IF files = {} THEN st
    ELSE LET p == FirstOf(files) IN
         IF outcome[p] = "failed"
         THEN SequentialLoop([st EXCEPT !.failed_files = Append(@, Name(p)),
                                        !.manifest = MarkEntry(@, p, FALSE, src)],
                             files \ {p}, outcome, src)
         ELSE IF outcome[p] = "writeerror"
         THEN [st EXCEPT !.processed = @ + 1, !.aborted = TRUE]
         ELSE SequentialLoop([st EXCEPT !.processed = @ + 1,
                                        !.manifest = MarkEntry(@, p, TRUE, src)],
                             files \ {p}, outcome, src)

\* What the run with one worker leaves for these files, from manifest m.
SequentialRun(m, skipped, files, outcome, src) ==
    SequentialLoop([processed |-> skipped, failed_files |-> <<>>, manifest |-> m,
                    aborted |-> FALSE],
                   files, outcome, src)

-----------------------------------------------------------------------------
(***************************************************************************)
(* Properties of insert_comments and compute_code_hash (SpecSplice).       *)
(***************************************************************************)
OriginalLines == Split(original_content)

\* The entries consumed so far whose block was inserted.
Matched == {e \in 1..Len(placed) : placed[e] # Unplaced}

\* The lines of ls at the positions org marks as original, in order.
RECURSIVE OriginalOf(_, _)
OriginalOf(ls, org) ==
    IF ls = <<>> THEN <<>>
    ELSE (IF Head(org) > 0 THEN <<Head(ls)>> ELSE <<>>) \o OriginalOf(Tail(ls), Tail(org))

RECURSIVE SumBlockLengths(_)
SumBlockLengths(es) ==
    IF es = {} THEN 0
    ELSE LET e == CHOOSE x \in es : TRUE
         IN  Len(CommentLines(comments[e])) + SumBlockLengths(es \ {e})

\* The k-th smallest member of a set of numbers.
RECURSIVE KthSmallest(_, _)
KthSmallest(S, k) ==
    LET m == CHOOSE x \in S : \A y \in S : x <= y
    IN  IF k = 1 THEN m ELSE KthSmallest(S \ {m}, k - 1)

\* C1: at most one annotation block per original source line per call: no two
\* entries of one insert_comments call insert their block before the same
\* original line (the line's identity in the original text, not its position).
C1_OneBlockPerOriginalLine ==
    \A a, b \in 1..Len(placed) :
        (a # b /\ placed[a] > 0) => placed[a] # placed[b]

\* C2: the splice is insertion-only: the original lines stay, unmodified and in
\* their order, the line count grows by the block lengths of the matched
\* entries, and the returned text splits into exactly these lines.
C2_InsertionOnly ==
    /\ Len(origin) = Len(lines)
    /\ OriginalOf(lines, origin) = OriginalLines
    /\ OriginalOf(origin, origin) = [i \in 1..Len(OriginalLines) |-> i]
    /\ Len(lines) = Len(OriginalLines) + SumBlockLengths(Matched)
    /\ spc = "done" => Split(Result) = lines

C2_Witness ==
    /\ spc = "done"
    /\ Cardinality(Matched) >= 2
    /\ \E e \in Matched : Len(CommentLines(comments[e])) >= 3
    /\ \E e \in 1..Len(placed) : e \notin Matched

\* C3: in a list whose entries all carry one anchor (and whose blocks do not
\* contain it), the k-th entry lands on the k-th original line containing the
\* anchor, whenever the original text has that many such lines.
C3_KthEntryOnKthOccurrence ==
    \A e \in 1..Len(placed) :
        LET a == EntryAnchor(comments[e])
            occ == {i \in 1..Len(OriginalLines) : Contains(a, OriginalLines[i])}
        IN  ( /\ \A d \in 1..e :
                    /\ ~EntryRejected(comments[d])
                    /\ EntryAnchor(comments[d]) = a
                    /\ \A k \in 1..Len(CommentLines(comments[d])) :
                            ~Contains(a, CommentLines(comments[d])[k])
              /\ Cardinality(occ) >= e )
            => placed[e] = KthSmallest(occ, e)

\* C4: the fingerprint is annotation-invariant: the text insert_comments returns
\* has the fingerprint of the text it was given.  Stated for the calls that
\* insert comment lines only (every inserted line starts with the comment
\* marker once trimmed).
C4_FingerprintAnnotationInvariant ==
    ( /\ spc = "done"
      /\ \A i \in 1..Len(lines) : origin[i] < 0 => StartsWith(Strip(lines[i]), <<"#">>) )
    => compute_code_hash(Result) = compute_code_hash(original_content)

\* The original lines a block of this call has been inserted before.
UsedOrigins == {placed[d] : d \in 1..Len(placed)} \ {Unplaced}

\* The positions of the lines that contain the anchor and have not been used as
\* an insertion point by an earlier entry of the call.
Eligible(anchor) ==
    {i \in 1..Len(lines) : Contains(anchor, lines[i]) /\ origin[i] \notin UsedOrigins}

\* The pass of the loop for the next entry, when that entry is not rejected
\* and no annotation line inserted so far contains its anchor.
PassOnOriginalLines ==
    /\ spc = "loop"
    /\ ei' = ei + 1
    /\ ~EntryRejected(comments[ei + 1])
    /\ \A i \in 1..Len(lines) :
           origin[i] < 0 => ~Contains(EntryAnchor(comments[ei + 1]), lines[i])

\* C15: each entry, in list order, has its block inserted immediately before
\* the topmost line that contains its anchor and has not been used as an
\* insertion point by an earlier entry of the call, and is skipped as unmatched
\* only when there is no such line.  Stated for the passes in which the anchor
\* occurs in original lines only.
C15_TopmostUnusedLine ==
    [][ PassOnOriginalLines =>
          LET elig == Eligible(EntryAnchor(comments[ei + 1]))
              top == CHOOSE i \in elig : \A j \in elig : i <= j
          IN  IF elig = {}
              THEN placed'[ei + 1] = Unplaced /\ lines' = lines
              ELSE /\ placed'[ei + 1] = origin[top]
                   /\ Len(lines') > Len(lines)
                   /\ SubSeq(lines', 1, top - 1) = SubSeq(lines, 1, top - 1)
                   /\ SubSeq(lines', top + Len(lines') - Len(lines), Len(lines'))
                          = SubSeq(lines, top, Len(lines)) ]_vars

\* The lines of an annotation block as the entry gives it: each non-blank line
\* behind `indent` spaces, each blank line as the empty string.
AuthoredBlock(block, indent) ==
    LET authored == Split(block)
        blank(l) == \A c \in 1..Len(l) : l[c] \in Whitespace
    IN  [k \in 1..Len(authored) |->
            IF blank(authored[k]) THEN <<>>
            ELSE [i \in 1..indent |-> " "] \o authored[k]]

\* This pass of the loop matches its entry and inserts `block`, whole and in
\* order, immediately before the matched line.
PassInserts(block) ==
    \E at \in 1..Len(lines) :
        /\ Contains(Strip(comments[ei + 1].anchor), lines[at])
        /\ origin[at] = placed'[ei + 1]
        /\ lines' = SubSeq(lines, 1, at - 1) \o block \o SubSeq(lines, at, Len(lines))

MatchedPass == spc = "loop" /\ ei' = ei + 1 /\ placed'[ei + 1] # Unplaced

\* The example of the specification, as a call of insert_comments.
ExampleCall ==
    insert_comments(<<"def foo(x)", NL, "end">>,
                    <<[anchor |-> <<"def foo(x)">>, indent |-> 0,
                       comment |-> <<"#", " ", "does foo", NL, "#", " ", "@param", " ", "x">>]>>)

\* C16: the pass of a matched entry inserts exactly the lines of the entry's
\* annotation block, in order and in the same number, non-blank lines behind
\* `indent` spaces and blank lines empty, the vertical spacing as authored,
\* together and immediately before the matched line.
C16_BlockLinesAsAuthored ==
    [][ MatchedPass =>
          PassInserts(AuthoredBlock(comments[ei + 1].comment, comments[ei + 1].indent)) ]_vars

\* C16 as amended: the lines inserted are those of the annotation block with
\* its leading and trailing whitespace trimmed (blank lines at either end of
\* the block are not inserted, blank lines inside it are); text
\* "def foo(x)\nend" with the entry of the example gives
\* "# does foo\n# @param x\ndef foo(x)\nend".
C16_TrimmedBlockLines ==
    /\ [][ MatchedPass =>
             PassInserts(AuthoredBlock(Strip(comments[ei + 1].comment),
                                       comments[ei + 1].indent)) ]_vars
    /\ [](ExampleCall = <<"#", " ", "does foo", NL, "#", " ", "@param", " ", "x", NL,
                          "def foo(x)", NL, "end">>)

\* A finished call in which an entry with an indent and a blank line in its
\* block was matched, after another entry had inserted its block.
C16_Witness ==
    /\ spc = "done"
    /\ \E e \in Matched :
          /\ comments[e].indent = 2
          /\ \E k \in 1..Len(CommentLines(comments[e])) : CommentLines(comments[e])[k] = <<>>
          /\ \E d \in Matched : d < e

\* The entries consumed so far, without those that inserted nothing.
RECURSIVE KeepPlaced(_)
KeepPlaced(k) ==
    IF k = 0 THEN <<>>
    ELSE KeepPlaced(k - 1) \o (IF placed[k] # Unplaced THEN <<comments[k]>> ELSE <<>>)

\* C17: an entry with an empty anchor or an empty block, and an entry whose
\* anchor is in no eligible line, contributes no line and does not affect the
\* other entries: the loop goes on to the last entry, and the text returned is
\* the text insert_comments returns for the list without these entries.
C17_SkippedEntriesLeaveNoTrace ==
    /\ \A e \in 1..Len(placed) :
          (Strip(comments[e].anchor) = <<>> \/ Strip(comments[e].comment) = <<>>)
              => placed[e] = Unplaced
    /\ \A e \in 1..Len(placed) :
          placed[e] = Unplaced => \A i \in 1..Len(origin) : origin[i] # -e
    /\ spc = "done" =>
          /\ ei = Len(comments)
          /\ Result = insert_comments(original_content, comments)
          /\ insert_comments(original_content, comments)
                 = insert_comments(original_content, KeepPlaced(Len(placed)))

\* A finished call whose first entry was rejected, whose second was unmatched
\* and whose third inserted its block.
C17_Witness ==
    /\ spc = "done"
    /\ Len(comments) = 3
    /\ EntryRejected(comments[1])
    /\ ~EntryRejected(comments[2]) /\ placed[2] = Unplaced
    /\ placed[3] # Unplaced

\* The rule of retention in the words of the specification: a line is dropped
\* when it is a comment line that contains a documentation tag, or a comment
\* line whose marker a space follows and that is neither a shebang line nor an
\* encoding declaration; every other line is retained.
Retained(line) ==
    LET t == Strip(line)
        comment == Len(t) >= 1 /\ t[1] = "#"
        tagged == \E i \in 1..Len(t) :
                      t[i] \in {"@param", "@return", "@example", "@note", "@see", "@yield"}
        spaced == Len(t) >= 2 /\ t[1] = "#" /\ t[2] = " "
        shebang == Len(t) >= 2 /\ t[1] = "#" /\ t[2] = "!"
        encoding == \E i \in 1..Len(t) : t[i] \in {"coding:", "encoding:"}
    IN  ~(comment /\ tagged) /\ ~(spaced /\ ~shebang /\ ~encoding)

RECURSIVE RetainedLines(_)
RetainedLines(ls) ==
    IF ls = <<>> THEN <<>>
    ELSE (IF Retained(Head(ls)) THEN <<Head(ls)>> ELSE <<>>) \o RetainedLines(Tail(ls))

\* Lines of the kinds the rule names, besides those of the texts.
RuleLines ==
    { <<"#", "!", "ruby">>, <<"#", " ", "-*-", " ", "coding:", " ", "utf-8">>,
      <<"#", " ", "encoding:", " ", "utf-8">>, <<"#">>, <<"#", "x">>, <<" ", "#", " ", "x">>,
      <<"#", "@note">>, <<"x", " ", "#", " ", "@see">>, <<" ">>, <<>> }

\* The two texts of a finished call: the one given and the one returned.
HashRule ==
    /\ \A l \in RuleLines : KeepLine(l) = Retained(l)
    /\ \A t \in {original_content, Result} : CodeLines(t) = RetainedLines(Split(t))

\* C18: compute_code_hash depends exactly on the sequence of the retained
\* lines (retained by the rule above, blank lines included, in their order):
\* two texts have the same fingerprint when their retained lines are the same
\* sequence, and different fingerprints when they are not.
C18_HashOfRetainedLines ==
    spc = "done" =>
        /\ HashRule
        /\ (RetainedLines(Split(Result)) = RetainedLines(Split(original_content)))
               <=> (compute_code_hash(Result) = compute_code_hash(original_content))

\* C18 as amended: the same, but a text with no retained line and a text whose
\* only retained line is one empty line have the same fingerprint.
C18_HashOfRetainedLinesButEmpty ==
    spc = "done" =>
        LET a == RetainedLines(Split(original_content))
            b == RetainedLines(Split(Result))
        IN  /\ HashRule
            /\ a = b => compute_code_hash(Result) = compute_code_hash(original_content)
            /\ (a # b /\ {a, b} # {<<>>, << <<>> >>})
                   => compute_code_hash(Result) # compute_code_hash(original_content)

\* A finished call on a text with a dropped comment line and two retained
\* lines, one of them blank, whose blocks added a retained line: the
\* fingerprint has changed.
C18_Witness ==
    /\ spc = "done"
    /\ Len(CodeLines(original_content)) >= 2
    /\ Len(CodeLines(original_content)) < Len(OriginalLines)
    /\ \E i \in 1..Len(OriginalLines) : OriginalLines[i] = <<>>
    /\ Len(CodeLines(Result)) > Len(CodeLines(original_content))
    /\ compute_code_hash(Result) # compute_code_hash(original_content)

\* The positions of the lines that entry e inserted.
BlockAt(e) == {i \in 1..Len(origin) : origin[i] = -e}

\* C26: inserted blocks stay intact: after any number of entries of the call
\* each inserted block's lines are contiguous, in the block's order, and
\* directly followed by the original source line the entry was anchored to;
\* so no later block lies inside an earlier one or between it and its anchor
\* line, and no insertion point is an inserted annotation line.
C26_BlocksStayIntact ==
    \A e \in Matched :
        LET at == BlockAt(e)
            first == CHOOSE i \in at : \A j \in at : i <= j
            n == Len(CommentLines(comments[e]))
        IN  /\ at = first..(first + n - 1)
            /\ SubSeq(lines, first, first + n - 1) = CommentLines(comments[e])
            /\ placed[e] > 0
            /\ first + n <= Len(lines)
            /\ origin[first + n] = placed[e]

-----------------------------------------------------------------------------
(***************************************************************************)
(* Properties of a run (Spec) and of the skip decision (SpecRerun).        *)
(***************************************************************************)
\* Manifest m holds the record of p's outcome: an entry of processed_files for
\* a success, the path in failed_files for a failure.
Recorded(m, p) ==
    IF task[p].success THEN p \in DOMAIN m.processed_files ELSE InSeq(p, m.failed_files)

HasRecord(m, p) == p \in DOMAIN m.processed_files \/ InSeq(p, m.failed_files)

\* The worker (or the pass of the sequential loop) for p has returned.
Returned(p) == task[p].pc \in {"returned", "collected"}

\* p is inside mark_file_processed, between taking the lock and returning.
InMark(p) == task[p].pc \in {"marked", "saving", "dumped"}

\* C5: manifest durability under interruption: whenever the process ends or is
\* killed, the manifest a reload gives holds the success record of every file
\* whose processing had completed.
C5_CompletedWorkSurvivesKill ==
    rpc = "reloaded" => \A p \in completed : p \in DOMAIN manifest.processed_files

\* C6: no lost manifest updates: the update of the manifest and its persist
\* happen with the manifest lock held by the calling worker, never by two
\* workers at a time, and when all workers have finished the manifest in
\* memory and the persisted one hold the record of every file.
C6_NoLostManifestUpdates ==
    /\ \A p \in ruby_files : InMark(p) => manifest_lock.owner = p
    /\ \A p, q \in ruby_files : (InMark(p) /\ InMark(q)) => p = q
    /\ ( /\ rpc \in {"run", "done"}
         /\ Todo # {}
         /\ \A p \in Todo : Returned(p) )
       => /\ disk.state = "json"
          /\ \A p \in Todo : Recorded(manifest, p) /\ Recorded(disk.content, p)

C6_Witness ==
    /\ rpc = "done"
    /\ Parallel
    /\ \E p, q \in Todo :
         /\ task[p].success /\ ~task[q].success
         /\ Recorded(disk.content, p) /\ Recorded(disk.content, q)

SkipCondition(p) ==
    /\ incremental_arg
    /\ ~force_rebuild
    /\ p \in DOMAIN manifest.processed_files
    /\ Name(p) \in DOMAIN outputs
    /\ p \notin unreadable
    /\ compute_code_hash(source[p]) = manifest.processed_files[p]

\* C7: the scan skips a file if and only if incremental mode is on (the
\* incremental flag set and force_rebuild not), the manifest has an entry for
\* the file, its output file exists, and the fingerprint of the file as it can
\* be read now equals the stored one.
C7_SkipIffAllFour ==
    [][ (rpc = "scan" /\ rpc' = "run")
        => \A p \in ruby_files : (task'[p].pc = "skipped") <=> SkipCondition(p) ]_vars

C7_Witness ==
    /\ rpc = "run"
    /\ \E p, q \in ruby_files :
         /\ task[p].pc = "skipped"
         /\ task[q].pc = "pending"
         /\ q \in DOMAIN manifest.processed_files
         /\ Name(q) \in DOMAIN outputs

\* C8: when the run has ended and a file has failed, the failed count the run
\* reports is above zero and the exit status is not zero.
C8_FailureGivesNonZeroExit ==
    ( /\ rpc = "done"
      /\ \E p \in Todo : ~task[p].success )
    => (Len(failed_files) > 0 /\ exit_code # 0)

\* C9: a file's failure never aborts the run: when the run has ended, every
\* file that needed work has been taken to its end, and every one that failed
\* has its failure record in the manifest.
C9_FailureNeverAbortsRun ==
    rpc \in {"done", "aborted"}
    => \A p \in Todo :
         /\ Returned(p)
         /\ ~task[p].success => InSeq(p, manifest.failed_files)

\* C10: once the worker of a file has returned, the manifest in memory holds
\* the file's outcome and so does the persisted manifest (whenever it is not
\* being rewritten); and the manifest holds no outcome of a file whose work
\* (process_file and the write of its output) is not over.
C10_RecordedBeforeReturn ==
    rpc \in {"run", "done"} =>
        \A p \in ruby_files :
            /\ Returned(p) =>
                  /\ Recorded(manifest, p)
                  /\ disk.state = "json" => Recorded(disk.content, p)
            /\ (HasRecord(manifest, p) \/ HasRecord(disk.content, p)) =>
                  /\ InMark(p) \/ Returned(p)
                  /\ p \in DOMAIN manifest.processed_files => task[p].success

C10_Witness ==
    /\ rpc = "run"
    /\ \E p, q \in ruby_files :
         /\ task[p].pc = "returned" /\ ~task[p].success
         /\ task[q].pc = "opened"
         /\ ~HasRecord(manifest, q)
         /\ disk.state = "json"

\* C11: after a directory run, every input file the run has recorded as a
\* success has its output file in documented/, and the content of that file is
\* the input's own splice result.
C11_OneOutputPerSuccess ==
    rpc = "done" =>
        \A p \in Todo :
            p \in DOMAIN manifest.processed_files =>
                /\ Name(p) \in DOMAIN outputs
                /\ outputs[Name(p)].text = task[p].result.text

\* The backend answered for p with a text from which no JSON array parses.
Malformed(p) ==
    /\ task[p].reply # NoCall
    /\ ~task[p].reply.raised
    /\ task[p].reply.response.json # "array"

\* C13: for a file whose response is malformed, extract_comments_json returns
\* the empty list and does not raise; the file is in the run's failed list and,
\* once its pass has returned, in the manifest's failed list; the run goes on
\* to the end of every file, and its exit status is not zero.
C13_MalformedResponseIsAFailure ==
    \A p \in ruby_files :
        Malformed(p) =>
            /\ extract_comments_json(task[p].reply.response)
                   = [raised |-> FALSE, entries |-> <<>>]
            /\ ~task[p].success
            /\ InSeq(Name(p), failed_files)
            /\ Returned(p) => InSeq(p, manifest.failed_files)
            /\ rpc = "done" => (exit_code # 0 /\ \A q \in Todo : Returned(q))

\* C14: load_manifest never fails the run: when manifest.json is missing or
\* does not parse, the process that starts has a manifest of an empty processed
\* map and an empty failed list, and its scan skips no file.
C14_LoadManifestNeverFails ==
    /\ []( (rpc = "scan" /\ disk.state # "json")
           => manifest = [processed_files |-> <<>>, failed_files |-> <<>>] )
    /\ [][ (rpc = "scan" /\ rpc' = "run" /\ disk.state # "json")
           => \A p \in ruby_files : task'[p].pc = "pending" ]_vars

\* A later run, past its scan, that found a half-written manifest.json and the
\* outputs of the run before it: both files are to be processed.
C14_Witness ==
    /\ run > 1
    /\ rpc = "run"
    /\ disk.state = "partial"
    /\ outputs # <<>>
    /\ Cardinality(ruby_files) = 2
    /\ \A p \in ruby_files : task[p].pc = "pending"

\* What happened to p in this run.
Outcome(p) ==
    IF ~Truthy(task[p].result) THEN "failed"
    ELSE IF task[p].success THEN "ok"
    ELSE "writeerror"

Members(sq) == {sq[i] : i \in 1..Len(sq)}

\* C19: aggregation does not depend on the order of completion: a run with a
\* pool of workers ends, whatever the interleaving, with the processed count,
\* the set of failed files and the manifest records (processed entries and
\* failed paths) that the sequential run gives for the same files with the
\* same per-file outcomes.
C19_AggregationAsSequential ==
    (rpc = "done" /\ Parallel) =>
        LET s == SequentialRun(EmptyManifest, 0, Todo, [p \in Todo |-> Outcome(p)], source)
        IN  /\ ~s.aborted
            /\ processed = s.processed
            /\ Members(failed_files) = Members(s.failed_files)
            /\ manifest.processed_files = s.manifest.processed_files
            /\ Members(manifest.failed_files) = Members(s.manifest.failed_files)

-----------------------------------------------------------------------------
(***************************************************************************)
(* Properties of mark_file_processed (SpecMark).                           *)
(***************************************************************************)
NoDuplicates(sq) == \A i, j \in 1..Len(sq) : sq[i] = sq[j] => i = j

\* The step in which the call for p updates self.manifest.
MarkStep(p) == task[p].pc = "tomark" /\ task'[p].pc = "marked"

\* C12: recording a failure is idempotent: starting from a failed list without
\* duplicates, after any sequence of calls by any threads the failed list (in
\* memory and persisted) holds each path at most once; a failure call puts its
\* path in the list, and leaves the list as it was when the path was in it.
C12_FailureRecordIdempotent ==
    /\ [](NoDuplicates(manifest.failed_files))
    /\ [](disk.state = "json" => NoDuplicates(disk.content.failed_files))
    /\ [][ \A p \in ruby_files :
             (MarkStep(p) /\ ~task[p].success) =>
                 /\ InSeq(p, manifest'.failed_files)
                 /\ InSeq(p, manifest.failed_files) =>
                        manifest'.failed_files = manifest.failed_files ]_vars

\* The call for p has recorded a failure of a path that a manifest p dumped
\* before already listed as failed, and the other path is listed as well.
C12_Witness ==
    \E p \in ruby_files :
        /\ task[p].pc = "marked"
        /\ ~task[p].success
        /\ InSeq(p, task[p].buf.failed_files)
        /\ Len(manifest.failed_files) = 2

\* C20: per-file records are isolated: the call of mark_file_processed for p
\* leaves the entry of every other path in the processed map, and the presence
\* of every other path in the failed list, as they were; a failure record
\* changes nothing in the processed map and a success record nothing in the
\* failed list; no other step changes the manifest, and the file persisted at
\* the end of the call holds that manifest.
C20_RecordsIsolated ==
    /\ [][ \A p \in ruby_files :
             MarkStep(p) =>
                 /\ \A q \in ruby_files \ {p} :
                       /\ q \in DOMAIN manifest'.processed_files
                              <=> q \in DOMAIN manifest.processed_files
                       /\ q \in DOMAIN manifest.processed_files
                              => manifest'.processed_files[q] = manifest.processed_files[q]
                       /\ InSeq(q, manifest'.failed_files) <=> InSeq(q, manifest.failed_files)
                 /\ ~task[p].success => manifest'.processed_files = manifest.processed_files
                 /\ task[p].success => manifest'.failed_files = manifest.failed_files ]_vars
    /\ [][ manifest' # manifest => \E p \in ruby_files : MarkStep(p) ]_vars
    /\ [][ \A p \in ruby_files :
             (task[p].pc = "dumped" /\ task'[p].pc = "returned")
                 => disk' = [state |-> "json", content |-> manifest] ]_vars

\* The call for p has recorded a success while the other path has an entry in
\* the processed map and both paths are in the failed list.
C20_Witness ==
    \E p, q \in ruby_files :
        /\ p # q
        /\ task[p].pc = "marked"
        /\ task[p].success
        /\ q \in DOMAIN manifest.processed_files
        /\ InSeq(q, manifest.failed_files)
        /\ InSeq(p, manifest.failed_files)


-----------------------------------------------------------------------------
(***************************************************************************)
(* The locks, the order of write and record, and the counts of a run      *)
(* (Spec; C22 under SpecRerun, C27 under SpecLive).                        *)
(***************************************************************************)
\* Workers of the pool between open(output_file, 'w') and the close.
Writing == {p \in DOMAIN task : task[p].pc = "opened"}

\* C21: output-file writes by parallel workers are mutually exclusive: in
\* every interleaving at most one worker is inside the physical write of an
\* output file, it is the holder of file_lock, and while it is inside no step
\* of another worker touches any output file.
C21_OutputWritesExclusive ==
    /\ [](Cardinality(Writing) <= 1)
    /\ [](\A p \in Writing : Parallel => file_lock = p)
    /\ [][\A p \in Writing :
            (Parallel /\ outputs' # outputs /\ rpc' = "run") => task'[p].pc = "tomark"]_vars

\* One worker is inside the write of documented/a.rb while the worker of the
\* other file of that name waits for the lock.
C21_Witness ==
    \E p, q \in DOMAIN task :
        /\ p # q
        /\ Name(p) = Name(q)
        /\ Parallel
        /\ task[p].pc = "opened"
        /\ task[q].pc = "towrite"
        /\ file_lock = p

\* The backend's response for p carried a non-empty entry list of which no
\* entry was inserted: each one is rejected or its anchor is in no line.
ZeroInserted(p) ==
    /\ task[p].pc \notin {"new", "pending", "skipped"}
    /\ ~task[p].reply.raised
    /\ LET b == extract_comments_json(task[p].reply.response)
       IN  /\ ~b.raised
           /\ b.entries # <<>>
           /\ \A k \in 1..Len(b.entries) :
                  \/ EntryRejected(b.entries[k])
                  \/ FindAnchor(EntryAnchor(b.entries[k]), Split(source[p]), {}) = 0

\* C22: zero insertions is not a failure: a file whose non-empty entry list
\* leaves no entry inserted gets the original text as its result and as its
\* output, is marked as a success with a success record in the manifest, and
\* is added neither to the run's failed list nor to the manifest's.
C22_ZeroInsertionsSucceed ==
    /\ [](\A p \in ruby_files :
            (ZeroInserted(p) /\ rpc \in {"run", "done"}) =>
                /\ task[p].result = [none |-> FALSE, text |-> source[p]]
                /\ task[p].pc \notin {"towrite", "opened"} => task[p].success
                /\ (task[p].pc = "tomark" \/ InMark(p)) =>
                       /\ Name(p) \in DOMAIN outputs
                       /\ outputs[Name(p)] = [of |-> p, text |-> source[p], complete |-> TRUE]
                /\ Returned(p) => p \in DOMAIN manifest.processed_files)
    /\ [][\A p \in ruby_files :
            /\ (task[p].pc = "pending" /\ ZeroInserted(p)') => failed_files' = failed_files
            /\ (task[p].pc = "tomark" /\ ZeroInserted(p) /\ rpc' = "run") =>
                   manifest'.failed_files = manifest.failed_files]_vars

\* The success records a process started now would find in manifest.json.
StoredSuccesses == DOMAIN load_manifest(disk).processed_files

\* C24: write-before-record: a success record for a file enters the manifest
\* only in the mark step of that file's pass and only when its output file
\* exists, completely written if it is still the one this pass wrote; so in
\* every state, after a kill and a reload as well, every file with a success
\* record in memory or in manifest.json has an output file.
C24_WriteBeforeRecord ==
    /\ [](\A p \in ruby_files :
            (p \in DOMAIN manifest.processed_files \/ p \in StoredSuccesses) =>
                Name(p) \in DOMAIN outputs)
    /\ [][\A p \in ruby_files :
            (/\ p \notin DOMAIN manifest.processed_files
             /\ p \in DOMAIN manifest'.processed_files
             /\ rpc' = "run") =>
                /\ task[p].pc = "tomark"
                /\ Name(p) \in DOMAIN outputs
                /\ outputs[Name(p)].of = p =>
                       outputs[Name(p)] =
                           [of |-> p, text |-> task[p].result.text, complete |-> TRUE]]_vars

\* A process killed in the middle of a run: the next one loads the success
\* record of one file, whose output is complete, and none of the other file.
C24_Witness ==
    /\ rpc = "reloaded"
    /\ \E p, q \in ruby_files :
         /\ p \in DOMAIN manifest.processed_files
         /\ outputs[Name(p)] = [of |-> p, text |-> insert_comments(source[p], ReplyEntries),
                                complete |-> TRUE]
         /\ ~HasRecord(manifest, q)
         /\ exit_code = -1
         /\ Name(q) \notin DOMAIN outputs

\* The files whose pass called mark_file_processed with success = False.
FailureRecorded == {p \in Todo : Returned(p) /\ ~task[p].success}

\* C25: every file is accounted for exactly once: at the end of a run of a
\* fresh generator the processed count (skipped and successful files) and the
\* length of the failed list add up to the number of files, and the failed
\* list names exactly the files that got a failure record in this run.
C25_ProcessedPlusFailedIsTotal ==
    rpc = "done" =>
        /\ processed + Len(failed_files) = Cardinality(ruby_files)
        /\ Members(failed_files) = {Name(p) : p \in FailureRecorded}

\* Worker p waits for the output-file lock, or for the manifest lock.
WaitsForFileLock(p) == Parallel /\ task[p].pc = "towrite" /\ ~FileLockFree(file_lock, p)

WaitsForManifestLock(p) ==
    task[p].pc \in {"tomark", "marked"} /\ ~CanAcquire(manifest_lock, p)

\* C27: the worker pool cannot deadlock: no worker holds the output-file lock
\* and the manifest lock at the same time, or waits for one while it holds the
\* other; and every parallel run comes to its end with every worker returned
\* and collected and both locks released.
C27_PoolCannotDeadlock ==
    /\ [](\A p \in ruby_files :
            /\ ~(file_lock = p /\ manifest_lock.owner = p)
            /\ file_lock = p => ~WaitsForManifestLock(p)
            /\ manifest_lock.owner = p => ~WaitsForFileLock(p))
    /\ ((rpc = "run" /\ Parallel) ~>
            (/\ rpc = "done"
             /\ \A p \in Todo : task[p].pc = "collected"
             /\ file_lock = "none"
             /\ manifest_lock = FreeLock))

\* Both locks are in use at once: one worker writes its output file while the
\* other is inside mark_file_processed.
C27_Witness ==
    \E p, q \in ruby_files :
        /\ Parallel
        /\ file_lock = p
        /\ task[p].pc = "opened"
        /\ manifest_lock.owner = q
        /\ InMark(q)

-----------------------------------------------------------------------------
(***************************************************************************)
(* The fingerprint of an edited source file (SpecEdit).                    *)
(***************************************************************************)
\* The next run, started on the storage as it is, would skip p.
NextRunSkips(p) ==
    is_file_processed(p, Incremental(TRUE, FALSE), load_manifest(disk), outputs, source,
                      unreadable)

\* C23: the fingerprint that mark_file_processed stores for a success is the
\* fingerprint of the text process_file read and spliced into the output, also
\* when the source file is edited during the pass; so after the run, a file
\* the next run would skip has an output made from a text with the
\* fingerprint of the current source.
C23_StoredFingerprintIsOfTextRead ==
    /\ [][\A p \in ruby_files :
            (MarkStep(p) /\ task[p].success) =>
                manifest'.processed_files[p] = compute_code_hash(task[p].read)]_vars
    /\ [](rpc = "done" =>
            \A p \in ruby_files :
                (NextRunSkips(p) /\ outputs[Name(p)].of = p) =>
                    /\ outputs[Name(p)].text = task[p].result.text
                    /\ compute_code_hash(task[p].read) = compute_code_hash(source[p]))

=============================================================================
